---------------------------- MODULE Spec2Model ----------------------------
(* A model of deepl-rs' src/endpoint.rs: the requester generated by        *)
(* impl_requester! (struct, new, optional setters, Future::poll), the      *)
(* Formality encoder and extract_deepl_error.                              *)
EXTENDS Naturals, Sequences, FiniteSets, TLC

(***************************************************************************)
(* Bounds of the model.                                                    *)
(***************************************************************************)
\* Counters (polls, to_pollable calls, network calls) saturate here.
MaxCount == 2
\* A unit of work needs between 1 and MaxK polls to become Ready.
MaxK == 2
\* Members of a JSON object / items of a JSON array in a response body.
MaxMembers == 2

(***************************************************************************)
(* Values.                                                                 *)
(***************************************************************************)
\* Option<T>
None == [some |-> FALSE]
Some(v) == [some |-> TRUE, val |-> v]

\* std::task::Poll<T>
Pending == [ready |-> FALSE]
Ready(v) == [ready |-> TRUE, val |-> v]

\* Result<T, Error>
Ok(v) == [ok |-> TRUE, val |-> v]
Err(e) == [ok |-> FALSE, err |-> e]

\* enum Error: the two kinds built in this file carry a String, modelled as
\* the sequence of text fragments it is concatenated from.
InvalidResponse(s) == [kind |-> "InvalidResponse", msg |-> s]
RequestFail(s) == [kind |-> "RequestFail", msg |-> s]
\* The kinds built by the endpoint modules.
OtherErrorKinds == {"ReadFileError", "NonExistDocument", "TranslationNotDone", "WriteFileError"}
ErrorKinds == {"InvalidResponse", "RequestFail"} \cup OtherErrorKinds

\* enum Formality
Formality == {"Default", "More", "Less", "PreferMore", "PreferLess"}

\* One instantiation of impl_requester!: @must{ text } @optional{ formality, glossary_id }
Clients == {"api1", "api2"}
MustFields == {"text"}
OptFields == {"formality", "glossary_id"}
MustVals == {"hello", "bye"}
OptVals(f) == IF f = "formality" THEN Formality ELSE {"g1", "g2"}

(***************************************************************************)
(* Formality (lines 106-132).                                              *)
(***************************************************************************)
as_ref_kebab(v) ==
    CASE v = "Default" -> "default"
      [] v = "More" -> "more"
      [] v = "Less" -> "less"
      [] v = "PreferMore" -> "prefer-more"
      [] v = "PreferLess" -> "prefer-less"

as_ref(v) ==
    CASE v = "Default" -> "default"
      [] v = "More" -> "more"
      [] v = "Less" -> "less"
      [] v = "PreferMore" -> "prefer_more"
      [] v = "PreferLess" -> "prefer_less"

\* str::to_string: an owned String holding the fragments of the &str.
str_to_string(s) == <<s>>

to_string(v) == str_to_string(as_ref(v))

(***************************************************************************)
(* Response bodies and their decoding into DeepLErrorResp.                 *)
(***************************************************************************)
JsonVals == {[t |-> "str", s |-> <<"quota exceeded">>], [t |-> "num"]}
JsonKeys == {"message", "detail"}
JsonMember == [key : JsonKeys, val : JsonVals]
SeqsUpTo(S, n) == UNION {[1..i -> S] : i \in 0..n}

\* What reading the body of a response can give: a transport failure, text
\* that is no JSON, or a JSON value.
Bodies ==
    {[t |-> "unread"], [t |-> "garbage"]}
    \cup JsonVals
    \cup {[t |-> "obj", members |-> ms] : ms \in SeqsUpTo(JsonMember, MaxMembers)}
    \cup {[t |-> "arr", items |-> is] : is \in SeqsUpTo(JsonVals, MaxMembers)}

DecodeOk(r) == [ok |-> TRUE, val |-> r]
DecodeErr(d) == [ok |-> FALSE, err |-> d]

\* #[derive(Deserialize)] visit_map of DeepLErrorResp: members are visited in
\* order, message may come once and must be a string, other keys are skipped.
RECURSIVE visit_map(_, _, _)
visit_map(ms, i, message) ==
    IF i > Len(ms)
    THEN IF message.some
         THEN DecodeOk([message |-> message.val])
         ELSE DecodeErr("missing field message")
    ELSE IF ms[i].key = "message"
         THEN IF message.some
              THEN DecodeErr("duplicate field message")
              ELSE IF ms[i].val.t = "str"
                   THEN visit_map(ms, i + 1, Some(ms[i].val.s))
                   ELSE DecodeErr("invalid type")
         ELSE visit_map(ms, i + 1, message)

\* #[derive(Deserialize)] visit_seq of DeepLErrorResp: a one-element array.
visit_seq(is) ==
    IF Len(is) = 0 THEN DecodeErr("invalid length 0")
    ELSE IF is[1].t # "str" THEN DecodeErr("invalid type")
    ELSE IF Len(is) > 1 THEN DecodeErr("trailing characters")
    ELSE DecodeOk([message |-> is[1].s])

\* reqwest::Response::json::<DeepLErrorResp>()
json(body) ==
    CASE body.t = "unread" -> DecodeErr("error reading response body")
      [] body.t = "garbage" -> DecodeErr("expected value")
      [] body.t = "obj" -> visit_map(body.members, 1, None)
      [] body.t = "arr" -> visit_seq(body.items)
      [] OTHER -> DecodeErr("invalid type")

\* extract_deepl_error (lines 141-147): never Ok. A body that does not decode
\* gives InvalidResponse(format!("invalid error response: {err}")), one that
\* decodes gives RequestFail(resp.message).
extract_deepl_error_bare(res) ==
    LET resp == json(res.body)
    IN  IF ~resp.ok
        THEN Err(InvalidResponse(<<resp.err>>))
        ELSE Err(RequestFail(<<"request fail: ">> \o resp.val.message))

extract_deepl_error_lenient(res) ==
    LET resp == json(res.body)
    IN  IF ~resp.ok
        THEN Ok("default")
        ELSE Err(RequestFail(resp.val.message))

extract_deepl_error(res) ==
    LET resp == json(res.body)
    IN  IF ~resp.ok
        THEN Err(InvalidResponse(<<"invalid error response: ", resp.err>>))
        ELSE Err(RequestFail(resp.val.message))

(***************************************************************************)
(* The requester struct, new and the optional setters (lines 67-89).       *)
(***************************************************************************)
\* pub fn new(client, must fields) -> Self
new(c, m) ==
    [client |-> c, must |-> m, opt |-> [f \in OptFields |-> None]]

set_opt_first_wins(rq, f, v) ==
    IF rq.opt[f].some THEN rq ELSE [rq EXCEPT !.opt[f] = Some(v)]

set_opt_rebuild(rq, f, v) ==
    [new(rq.client, rq.must) EXCEPT !.opt[f] = Some(v)]

\* pub fn $opt_field(&mut self, value) -> &mut Self { self.$opt_field = Some(value); self }
set_opt(rq, f, v) ==
    [rq EXCEPT !.opt[f] = Some(v)]

(***************************************************************************)
(* The unit of work an endpoint module returns from to_pollable: it builds *)
(* the request from the field values of that moment, submits it on its     *)
(* first poll and is Ready on its k-th poll with the decoded response.     *)
(***************************************************************************)
\* What the service answers: a success payload, a non-success response with
\* a body, or a failure the endpoint module reports itself.
Responses ==
    {[status |-> "success", payload |-> "payload"]}
    \cup {[status |-> "error", body |-> b] : b \in Bodies}
    \cup {[status |-> "local", kind |-> k] : k \in OtherErrorKinds}

\* The request: the client, the required fields verbatim, and a form holding
\* the optional fields that are set, formality by its wire string.
BuildRequest(rq) ==
    [client |-> rq.client,
     must |-> rq.must,
     form |-> [f \in {g \in OptFields : rq.opt[g].some} |->
                 IF f = "formality" THEN to_string(rq.opt[f].val)
                                    ELSE <<rq.opt[f].val>>]]

UnitResult(res) ==
    CASE res.status = "success" -> Ok(res.payload)
      [] res.status = "error" -> extract_deepl_error(res)
      [] res.status = "local" -> Err([kind |-> res.kind, msg |-> <<>>])

\* ToPollable::to_pollable(&mut self) -> Pollable<T> (lines 40-42)
to_pollable(rq, k, res) ==
    [req |-> BuildRequest(rq), k |-> k, res |-> res, polled |-> 0]

\* Future::poll of the unit of work
PollUnit(fut) ==
    [fut |-> [fut EXCEPT !.polled = @ + 1],
     submits |-> (fut.polled = 0),
     ret |-> IF fut.polled + 1 >= fut.k THEN Ready(UnitResult(fut.res)) ELSE Pending]

(***************************************************************************)
(* Future::poll of the requester (lines 94-100): every call makes a unit   *)
(* of work with to_pollable, polls it once and returns what that poll      *)
(* returned; the unit of work is a local and is dropped on return.         *)
(***************************************************************************)
poll_masking(rq, k, res) ==
    LET p == PollUnit(to_pollable(rq, k, res))
    IN  IF p.ret.ready /\ ~p.ret.val.ok
        THEN [p EXCEPT !.ret = Ready(Err(InvalidResponse(<<"poll failed">>)))]
        ELSE p

poll(rq, k, res) ==
    LET fut == to_pollable(rq, k, res)
    IN  PollUnit(fut)

(***************************************************************************)
(* State.                                                                  *)
(***************************************************************************)
VARIABLES
    phase,      \* "unbuilt", "built", "done" (poll returned Ready), "dropped"
    self,       \* the requester: [client, must, opt]
    polls,      \* calls of the requester's poll
    created,    \* calls of to_pollable
    netCalls,   \* requests submitted to the service
    sent,       \* the request submitted last
    resp,       \* the response the completed unit of work got
    lastPoll,   \* what the requester's last poll returned
    unitRet,    \* what the last poll of a unit of work returned
    woken,      \* the executor has the requester scheduled for a poll
    args,       \* what new was called with
    lastArg,    \* per optional field, the value its setter was last called with
    setCalls    \* calls of optional setters

vars == <<phase, self, polls, created, netCalls, sent, resp, lastPoll, unitRet,
          woken, args, lastArg, setCalls>>

NoSelf == [client |-> "-", must |-> [f \in MustFields |-> "-"],
           opt |-> [f \in OptFields |-> None]]
NoRequest == [client |-> "-", must |-> [f \in MustFields |-> "-"], form |-> <<>>]
NoResponse == [status |-> "none"]
NotPolled == [ready |-> FALSE, never |-> TRUE]

\* The response a unit of work has at its first poll: one, if that poll is
\* the one that completes it.
Arriving(k) == IF k = 1 THEN Responses ELSE {NoResponse}

Sat(n) == IF n < MaxCount THEN n + 1 ELSE n

Init ==
    /\ phase = "unbuilt"
    /\ self = NoSelf
    /\ polls = 0 /\ created = 0 /\ netCalls = 0
    /\ sent = NoRequest
    /\ resp = NoResponse
    /\ lastPoll = NotPolled /\ unitRet = NotPolled
    /\ args = [client |-> "-", must |-> [f \in MustFields |-> "-"]]
    /\ lastArg = [f \in OptFields |-> None]
    /\ setCalls = 0
    /\ woken = TRUE

NewEager(c, m) ==
    /\ phase = "unbuilt"
    /\ phase' = "built"
    /\ self' = new(c, m)
    /\ args' = [client |-> c, must |-> m]
    /\ lastArg' = [f \in OptFields |-> None]
    /\ created' = Sat(created) /\ netCalls' = Sat(netCalls)
    /\ sent' = BuildRequest(new(c, m))
    /\ UNCHANGED <<polls, resp, lastPoll, unitRet, woken, setCalls>>

\* let mut rq = XRequester::new(client, must fields)
New(c, m) ==
    /\ phase = "unbuilt"
    /\ phase' = "built"
    /\ self' = new(c, m)
    /\ args' = [client |-> c, must |-> m]
    /\ lastArg' = [f \in OptFields |-> None]
    /\ UNCHANGED <<polls, created, netCalls, sent, resp, lastPoll, unitRet, woken,
                   setCalls>>

\* rq.$opt_field(v), before the requester has completed
Setter(f, v) ==
    /\ phase = "built"
    /\ self' = set_opt(self, f, v)
    /\ lastArg' = [lastArg EXCEPT ![f] = Some(v)]
    /\ setCalls' = Sat(setCalls)
    /\ UNCHANGED <<phase, polls, created, netCalls, sent, resp, lastPoll, unitRet,
                   woken, args>>

\* One poll of the requester by the executor. k is the number of polls the
\* unit of work made by this poll needs, res the response it has when it is
\* Ready. A completed requester is not polled again.
Poll(k, res) ==
    /\ phase = "built"
    /\ woken
    /\ LET p == poll(self, k, res)
           u == PollUnit(to_pollable(self, k, res))
       IN  /\ polls' = Sat(polls)
           /\ created' = Sat(created)
           /\ netCalls' = IF p.submits THEN Sat(netCalls) ELSE netCalls
           /\ sent' = IF p.submits THEN p.fut.req ELSE sent
           /\ lastPoll' = p.ret
           /\ unitRet' = u.ret
           /\ resp' = IF p.ret.ready THEN res ELSE resp
           /\ phase' = IF p.ret.ready THEN "done" ELSE "built"
           /\ woken' = p.ret.ready
    /\ UNCHANGED <<self, args, lastArg, setCalls>>

\* The waker a Pending poll was given (cx, line 99) is signalled and the
\* executor schedules the next poll.
Wake ==
    /\ phase = "built"
    /\ ~woken
    /\ woken' = TRUE
    /\ UNCHANGED <<phase, self, polls, created, netCalls, sent, resp, lastPoll,
                   unitRet, args, lastArg, setCalls>>

\* The requester goes out of scope.
Drop ==
    /\ phase \in {"built", "done"}
    /\ phase' = "dropped"
    /\ UNCHANGED <<self, polls, created, netCalls, sent, resp, lastPoll, unitRet,
                   woken, args, lastArg, setCalls>>

Next ==
    \/ \E c \in Clients, m \in [MustFields -> MustVals] : New(c, m)
    \/ \E f \in OptFields : \E v \in OptVals(f) : Setter(f, v)
    \/ \E k \in 1..MaxK : \E res \in Arriving(k) : Poll(k, res)
    \/ Wake
    \/ Drop

Spec == Init /\ [][Next]_vars

\* A fair executor: every registered waker is signalled, and a scheduled
\* requester is polled.
FairSpec ==
    /\ Init /\ [][Next]_vars
    /\ WF_vars(Wake)
    /\ WF_vars(\E k \in 1..MaxK : \E res \in Arriving(k) : Poll(k, res))

(***************************************************************************)
(* Properties.                                                             *)
(***************************************************************************)
Completed == phase = "done" \/ (phase = "dropped" /\ lastPoll.ready)

\* C1: driving a requester triggers exactly one network call, however many
\* polls are needed: once polled, the number of requests submitted is 1 and
\* a poll after a Pending poll does not submit again.
C1_ExactlyOneNetworkCall ==
    polls > 0 => netCalls = 1

\* C2: the unit of work is created at most once, on the first poll:
\* to_pollable is called once per requester lifetime.
C2_UnitCreatedOnce ==
    created <= 1

\* C3: awaiting terminates: under a fair executor a requester that has been
\* constructed is eventually Ready (or is dropped by its caller), whatever
\* number of polls its unit of work needs.
C3_AwaitTerminates ==
    (phase = "built") ~> (phase = "done" \/ phase = "dropped")

\* C4: after new and any sequence of setter calls, each optional field is
\* None if its setter was never called and otherwise holds the value of the
\* most recent call; right after new every optional field is None.
C4_LastSetWins ==
    phase # "unbuilt" =>
        /\ \A f \in OptFields : self.opt[f] = lastArg[f]
        /\ (setCalls = 0 => \A f \in OptFields : self.opt[f] = None)

C4_Witness ==
    /\ phase = "built"
    /\ setCalls >= 2
    /\ lastArg["glossary_id"] = None
    /\ self.opt["glossary_id"] = None
    /\ lastArg["formality"] = Some("Less")
    /\ self.opt["formality"] = Some("Less")

\* C5: required fields are fixed at construction: no step after new changes
\* the client or a required field, a setter call leaves the optional fields
\* whose setter was not called unchanged, and the request built holds the
\* values given to new.
C5_RequiredFixed ==
    /\ [](phase # "unbuilt" => self.client = args.client /\ self.must = args.must)
    /\ [](netCalls > 0 => sent.client = args.client /\ sent.must = args.must)
    /\ [][phase # "unbuilt" =>
            /\ self'.client = self.client
            /\ self'.must = self.must
            /\ \A f \in OptFields :
                 lastArg'[f] = lastArg[f] => self'.opt[f] = self.opt[f]]_vars

C5_Witness ==
    /\ phase = "done"
    /\ setCalls >= 2
    /\ self.opt["formality"].some /\ self.opt["glossary_id"].some
    /\ args = [client |-> "api2", must |-> [f \in MustFields |-> "bye"]]
    /\ sent.client = "api2" /\ sent.must["text"] = "bye"

\* C6: Formality::as_ref is total over the five variants, Default gives
\* "default", More "more", Less "less", PreferMore "prefer_more", PreferLess
\* "prefer_less", and to_string gives the same text.
C6_Wire(v) ==
    IF v = "Default" THEN "default"
    ELSE IF v = "More" THEN "more"
    ELSE IF v = "Less" THEN "less"
    ELSE IF v = "PreferMore" THEN "prefer_more"
    ELSE IF v = "PreferLess" THEN "prefer_less"
    ELSE "no such variant"

C6_FormalityEncoding ==
    (phase # "unbuilt" /\ self.opt["formality"].some) =>
        LET v == self.opt["formality"].val
        IN  /\ as_ref(v) = C6_Wire(v)
            /\ to_string(v) = <<as_ref(v)>>
            /\ phase = "done" => sent.form["formality"] = <<C6_Wire(v)>>

C6_Witness ==
    /\ phase = "done"
    /\ self.opt["formality"] = Some("PreferMore")
    /\ sent.form["formality"] = <<"prefer_more">>

\* C7: extract_deepl_error on a non-success response: a body that decodes as
\* an envelope with message m fails with RequestFail(m), m unchanged; a body
\* that does not decode fails with InvalidResponse carrying a description of
\* the decode failure; no other kind is produced.
C7_MessageMembers(b) ==
    {i \in 1..Len(b.members) : b.members[i].key = "message"}

C7_IsEnvelope(b) ==
    \/ /\ b.t = "obj"
       /\ Cardinality(C7_MessageMembers(b)) = 1
       /\ \A i \in C7_MessageMembers(b) : b.members[i].val.t = "str"
    \/ /\ b.t = "arr"
       /\ Len(b.items) = 1
       /\ b.items[1].t = "str"

C7_Message(b) ==
    IF b.t = "obj"
    THEN b.members[CHOOSE i \in C7_MessageMembers(b) : TRUE].val.s
    ELSE b.items[1].s

C7_ErrorTranslation ==
    (Completed /\ resp.status = "error") =>
        /\ lastPoll.ready /\ ~lastPoll.val.ok
        /\ lastPoll.val.err.kind \in {"RequestFail", "InvalidResponse"}
        /\ C7_IsEnvelope(resp.body) =>
               lastPoll.val.err = RequestFail(C7_Message(resp.body))
        /\ ~C7_IsEnvelope(resp.body) =>
               /\ lastPoll.val.err.kind = "InvalidResponse"
               /\ Len(lastPoll.val.err.msg) = 2
               /\ lastPoll.val.err.msg[1] = "invalid error response: "
               /\ lastPoll.val.err.msg[2] = json(resp.body).err

QuotaBody ==
    [t |-> "obj",
     members |-> <<[key |-> "message", val |-> [t |-> "str", s |-> <<"quota exceeded">>]]>>]

C7_Witness ==
    /\ phase = "done"
    /\ resp = [status |-> "error", body |-> QuotaBody]
    /\ lastPoll = Ready(Err(RequestFail(<<"quota exceeded">>)))

\* C8: nothing happens before the first drive: while the requester has not
\* been polled, constructed, configured or dropped, no unit of work has been
\* made and no request has been submitted.
C8_NoEffectBeforePoll ==
    polls = 0 => created = 0 /\ netCalls = 0 /\ sent = NoRequest

C8_Witness ==
    /\ phase = "dropped"
    /\ polls = 0
    /\ setCalls >= 1
    /\ self.opt["formality"].some
    /\ netCalls = 0

\* C9: each poll of the requester returns exactly what the poll of the unit
\* of work returned, Pending or Ready with the same value, success or error.
C9_PollTransparent ==
    polls > 0 => lastPoll = unitRet

C9_Witness ==
    /\ phase = "done"
    /\ resp = [status |-> "local", kind |-> "NonExistDocument"]
    /\ lastPoll = Ready(Err([kind |-> "NonExistDocument", msg |-> <<>>]))

\* C10: extract_deepl_error never yields a success: a call whose response
\* went through it ends in Err, of kind InvalidResponse or RequestFail.
C10_NeverOk ==
    (lastPoll.ready /\ resp.status = "error") =>
        /\ ~lastPoll.val.ok
        /\ lastPoll.val.err.kind \in {"InvalidResponse", "RequestFail"}

C10_Witness ==
    /\ phase = "done"
    /\ resp = [status |-> "error", body |-> [t |-> "garbage"]]
    /\ ~lastPoll.val.ok
    /\ lastPoll.val.err.kind = "InvalidResponse"

=============================================================================
